---- MODULE Spec2Model ----
(***************************************************************************)
(* Model of the analytics server (server/analytics-server.js) and of the   *)
(* command line analyser (analyze-data.js).                                *)
(*                                                                         *)
(* Persistent state: analytics-data/events.jsonl and                       *)
(* analytics-data/stats.json.  Every `await` of a handler is a point where *)
(* other handlers run, so a handler is one action per await-delimited      *)
(* step.  fs.promises.appendFile / writeFile open the file and then write  *)
(* the data in pieces of kWriteFileMaxChunkSize bytes, awaiting each       *)
(* piece; express.json() accepts bodies of up to 100 kB, so the line of a  *)
(* large batch reaches the file in more than one piece.  writeFile opens   *)
(* with flag 'w', which truncates the file before the data is written.     *)
(***************************************************************************)
EXTENDS Integers, Sequences, FiniteSets, TLC

\* ---------------------------------------------------------------- bounds
MaxReqs == 2        \* ingestion requests of a behaviour
MaxCrashes == 1     \* process crashes followed by a restart

Reqs == 1..MaxReqs

\* ------------------------------------------------------ program constants
DefaultLimit == 100            \* `|| 100` of /api/events/recent

\* --------------------------------------------------------------- values
Absent == "undefined"          \* an optional field that is not in the body

\* a user_id that is a JSON number is written "#" followed by its digits;
\* every other id is the string itself
NumberIds == {"#42"}

\* String(id): the property name an id is stored under in an object
PropertyKey(id) == IF id = "#42" THEN "42" ELSE id

\* the number a number id stands for
NumberOf(id) == IF id = "#42" THEN 42 ELSE 0

\* if (data.user_id), .filter(Boolean): JavaScript truthiness of an id
Truthy(v) == v # Absent /\ v # ""

\* e.properties.price of an event whose properties hold no price
Undef == -1

\* event.properties: {price, rate} as the client sent them (numbers; a rate
\* is in hundredths of a percent point), or no properties field at all
Props(price, rate) == [present |-> TRUE, price |-> price, rate |-> rate]

NoProps == [present |-> FALSE, price |-> Undef, rate |-> Undef]

EventWith(n, props) == [event_name |-> n, properties |-> props]

\* an event whose properties hold neither price nor rate
Event(n) == EventWith(n, Props(Undef, Undef))

Calc(price, rate) == EventWith("calculation_performed", Props(price, rate))

Body(kind, events, user_id, user_info) ==
  [events_kind |-> kind, events |-> events, user_id |-> user_id,
   user_info |-> user_info]

\* req.body: what the client posted.  events_kind tells what the `events`
\* field holds; `events` is its content when it is an array.  user_info
\* "large" makes the serialized line longer than one piece.
ValidBodies ==
  { Body("array", <<Event("calculation_performed")>>, Absent, "small"),
    Body("array", <<Event("app_opened"), Event("calculation_performed"),
                    Event("share_clicked")>>, Absent, "large"),
    Body("array", <<Event("calculation_performed"), Event("share_clicked")>>,
         "u1", "small"),
    Body("array", <<>>, "u1", "large") }

InvalidBodies ==
  { Body("missing", <<>>, Absent, "small"),
    Body("string", <<>>, "u1", "small") }

Bodies == ValidBodies \cup InvalidBodies

\* the bodies posted in the behaviours that also query the log
QBodies ==
  { Body("array", <<Event("app_opened"), Event("calculation_performed"),
                    Event("share_clicked")>>, Absent, "large"),
    Body("array", <<Event("calculation_performed"), Event("share_clicked")>>,
         "u1", "small"),
    Body("array", <<Event("app_opened")>>, "#42", "small") }

\* the bodies posted in the behaviours that start from a stats file whose
\* unique_users is a list
UBodies ==
  { Body("array", <<Event("calculation_performed")>>, "u1", "small"),
    Body("array", <<>>, "u2", "small") }

\* the bodies posted in the behaviours that run the aggregations: a visit
\* without a calculation, calculations with and without a price, a price
\* and a rate of 0, an event without properties, a user whose id is made of
\* digits
ABodies ==
  { Body("array", <<Event("app_opened"), Event("share_clicked")>>, "u1",
         "small"),
    Body("array", <<Calc(300, 5), Calc(Undef, Undef)>>, "u2", "small"),
    Body("array", <<Calc(0, 0), Calc(100, 7)>>, Absent, "small"),
    Body("array", <<Event("app_opened"), Calc(200, 6)>>, "42", "small"),
    Body("array", <<EventWith("calculation_performed", NoProps)>>, "u1",
         "small") }

\* req.query.limit and req.params.userId as the strings the client sent
\* ("" : no limit parameter)
QLimits == {"", "0", "1", "3"}
QUserIds == {"u1", "u2", "42"}

NoBody == Body("missing", <<>>, Absent, "small")

\* !events : undefined and null are falsy, a non-empty string, an object and
\* an array (also the empty one) are truthy
Falsy(kind) == kind \in {"missing", "null"}

IsArray(kind) == kind = "array"

\* line 56: if (!events || !Array.isArray(events)) -> 400
ValidationOnlyFalsy(body) == ~ Falsy(body.events_kind)

IsValidEvents(body) ==
  ~ (Falsy(body.events_kind) \/ ~ IsArray(body.events_kind))

\* lines 61-70: enrichedData (the server time stamps are left out: no
\* property of the model reads them).  session_id tags the payload.
Enrich(p, body) ==
  [session_id |-> p, user_id |-> body.user_id, user_info |-> body.user_info,
   events |-> body.events]

\* number of pieces JSON.stringify(enrichedData) + '\n' is written in
NumChunks(session) == IF session.user_info = "large" THEN 2 ELSE 1

\* the k-th piece of a session's line; "whole" and "tail" end with '\n'
ChunkOf(session, k) ==
  [part |-> IF NumChunks(session) = 1 THEN "whole"
            ELSE IF k = 1 THEN "head" ELSE "tail",
   session |-> session]

\* ----------------------------------------------------- reading the log
\* data.trim().split('\n').filter(line => line): the lines of the file, each
\* a sequence of pieces; an unterminated last piece is a line of its own
RECURSIVE SplitLines(_, _, _)
SplitLines(data, cur, acc) ==
  IF data = <<>>
  THEN IF cur = <<>> THEN acc ELSE Append(acc, cur)
  ELSE LET c == Head(data) IN
       IF c.part \in {"whole", "tail"}
       THEN SplitLines(Tail(data), <<>>, Append(acc, Append(cur, c)))
       ELSE SplitLines(Tail(data), Append(cur, c), acc)

Lines(data) == SplitLines(data, <<>>, <<>>)

\* JSON.parse(line) succeeds exactly on the complete text of one record
Decodable(line) ==
  \/ Len(line) = 1 /\ line[1].part = "whole"
  \/ Len(line) = 2 /\ line[1].part = "head" /\ line[2].part = "tail"
       /\ line[1].session = line[2].session

JSONParse(line) == line[1].session

RECURSIVE SumLen(_)
SumLen(sessions) ==
  IF sessions = <<>> THEN 0
  ELSE Len(Head(sessions).events) + SumLen(Tail(sessions))

RECURSIVE CountName(_, _)
CountName(events, name) ==
  IF events = <<>> THEN 0
  ELSE (IF Head(events).event_name = name THEN 1 ELSE 0)
       + CountName(Tail(events), name)

\* ------------------------------------------------------- the stats file
\* JSON.stringify(new Set()) is "{}": a Set has no enumerable properties,
\* so the file holds an empty object, not an array
JSONStringifySet == [kind |-> "object", items |-> <<>>]

StatsJSON(ts, te, tc, tsh, uu) ==
  [state |-> "json", total_sessions |-> ts, total_events |-> te,
   total_calculations |-> tc, total_shares |-> tsh, unique_users |-> uu]

\* lines 36-42: what init() writes
InitialStats == StatsJSON(0, 0, 0, 0, JSONStringifySet)

NoStatsFile == [InitialStats EXCEPT !.state = "missing"]

\* the file after open(path, 'w') and before the data is written
TruncatedStats == [InitialStats EXCEPT !.state = "truncated"]

\* the length of the serialized object: within the bounds every counter is
\* one digit, so the text grows with the user ids it lists
StatsSize(file) == Len(file.unique_users.items)

\* line 230: a writer's data lands at offset 0 of the file it truncated when
\* it opened it; where another writer has written a longer text since, the
\* end of that text stays behind the new one and the file no longer parses
WrittenOver(cur, new) ==
  IF cur.state \in {"json", "corrupt"} /\ StatsSize(cur) > StatsSize(new)
  THEN [cur EXCEPT !.state = "corrupt"]
  ELSE new

Includes(seq, v) == \E i \in 1..Len(seq) : seq[i] = v

\* lines 223-228 of updateStats; err is the exception thrown, "" for none
UniqueUsersStepAlwaysPush(uu, user_id) ==
  IF ~ Truthy(user_id) THEN [err |-> "", uu |-> uu]
  ELSE LET a == IF uu.kind = "absent"
                THEN [kind |-> "array", items |-> <<>>] ELSE uu
       IN IF a.kind # "array"
          THEN [err |-> "TypeError", uu |-> uu]
          ELSE [err |-> "", uu |-> [a EXCEPT !.items = Append(@, user_id)]]

UniqueUsersStep(uu, user_id) ==
  IF ~ Truthy(user_id) THEN [err |-> "", uu |-> uu]
  ELSE LET a == IF uu.kind = "absent"
                THEN [kind |-> "array", items |-> <<>>] ELSE uu
       IN IF a.kind # "array"
          THEN [err |-> "TypeError", uu |-> uu]   \* .includes is not a function
          ELSE [err |-> "",
                uu |-> IF Includes(a.items, user_id) THEN a
                       ELSE [a EXCEPT !.items = Append(@, user_id)]]

\* lines 207-228: from the content read to the object to be written
updateStatsBody(file, data) ==
  IF file.state = "missing" THEN [err |-> "ENOENT", stats |-> file]
  ELSE IF file.state # "json" THEN [err |-> "SyntaxError", stats |-> file]
  ELSE LET u == UniqueUsersStep(file.unique_users, data.user_id) IN
       IF u.err # "" THEN [err |-> u.err, stats |-> file]
       ELSE [err |-> "",
             stats |->
               StatsJSON(file.total_sessions + 1,
                         file.total_events + Len(data.events),
                         file.total_calculations
                           + CountName(data.events, "calculation_performed"),
                         file.total_shares
                           + CountName(data.events, "share_clicked"),
                         u.uu)]

\* lines 88-91: the catch of the POST handler answers 500 and the handler
\* ends; updateStats is not reached
HandlerCatchFallsThrough == [next |-> "readStats", status |-> 500]

HandlerCatch == [next |-> "done", status |-> 500]

\* lines 231-233 and 83-86: updateStats logs what it catches and returns, and
\* the handler answers success whatever happened inside updateStats
StatusAfterRethrow(err) == IF err = "" THEN 200 ELSE 500

StatusAfterUpdateStats(err) == 200


\* ------------------------------------------------------------ queries
\* parseInt of the limit parameter: NaN when there is no number to read
ParseInt(str) ==
  CASE str = "0" -> [nan |-> FALSE, n |-> 0]
    [] str = "1" -> [nan |-> FALSE, n |-> 1]
    [] str = "3" -> [nan |-> FALSE, n |-> 3]
    [] OTHER -> [nan |-> TRUE, n |-> 0]

\* line 115: parseInt(req.query.limit) || 100 : NaN and 0 are falsy
LimitOf(str) ==
  LET v == ParseInt(str) IN IF v.nan \/ v.n = 0 THEN DefaultLimit ELSE v.n

\* Array.prototype.slice(start) with one, possibly negative, argument
Slice(seq, start) ==
  LET from == IF start < 0 THEN (IF Len(seq) + start < 0 THEN 0
                                 ELSE Len(seq) + start)
              ELSE (IF start > Len(seq) THEN Len(seq) ELSE start)
  IN SubSeq(seq, from + 1, Len(seq))

AllDecodable(lines) == \A i \in 1..Len(lines) : Decodable(lines[i])

\* lines.map(line => JSON.parse(line)), defined when no line throws
ParseAll(lines) == [i \in 1..Len(lines) |-> JSONParse(lines[i])]

RECURSIVE SelectDecodable(_)
SelectDecodable(lines) ==
  IF lines = <<>> THEN <<>>
  ELSE IF Decodable(Head(lines))
       THEN <<JSONParse(Head(lines))>> \o SelectDecodable(Tail(lines))
       ELSE SelectDecodable(Tail(lines))

\* the records of the log a scan can decode, in file order
Records(file) == SelectDecodable(Lines(file.data))

\* Number(q) of a path parameter
ToNumber(q) ==
  CASE q = "42" -> [nan |-> FALSE, n |-> 42]
    [] q = "7" -> [nan |-> FALSE, n |-> 7]
    [] OTHER -> [nan |-> TRUE, n |-> 0]

\* session.user_id == userId, userId a string: a stored number is compared
\* with Number(userId), a stored string with the string, and an absent
\* user_id equals no string
LooseEq(stored, q) ==
  IF stored \in NumberIds
  THEN ~ ToNumber(q).nan /\ ToNumber(q).n = NumberOf(stored)
  ELSE stored # Absent /\ stored = q

RECURSIVE FilterUser(_, _)
FilterUser(sessions, q) ==
  IF sessions = <<>> THEN <<>>
  ELSE IF LooseEq(Head(sessions).user_id, q)
       THEN <<Head(sessions)>> \o FilterUser(Tail(sessions), q)
       ELSE FilterUser(Tail(sessions), q)

UserSet(sessions) ==
  {sessions[i].user_id : i \in {j \in 1..Len(sessions) : Truthy(sessions[j].user_id)}}

\* ------------------------------------------------------- aggregations
\* analyze-data.js lines 31-37: every event with its session's ids (the
\* dashboard's flatMap of line 165 is the same list without the ids)
RECURSIVE FlatEvents(_)
FlatEvents(sessions) ==
  IF sessions = <<>> THEN <<>>
  ELSE LET s == Head(sessions) IN
       [i \in 1..Len(s.events) |->
          [event_name |-> s.events[i].event_name,
           properties |-> s.events[i].properties,
           session_id |-> s.session_id, user_id |-> s.user_id]]
       \o FlatEvents(Tail(sessions))

\* allEvents.filter(e => e.event_name === 'calculation_performed')
Calculations(events) ==
  SelectSeq(events, LAMBDA e : e.event_name = "calculation_performed")

\* e.properties.price is a TypeError when e.properties is undefined
PropsThrow(calcs) == \E i \in 1..Len(calcs) : ~ calcs[i].properties.present

PropertyOf(e, field) ==
  IF field = "price" THEN e.properties.price ELSE e.properties.rate

ValuesOf(calcs, field) == [i \in 1..Len(calcs) |-> PropertyOf(calcs[i], field)]

RECURSIVE Sum(_)
Sum(seq) == IF seq = <<>> THEN 0 ELSE Head(seq) + Sum(Tail(seq))

RECURSIVE MathMin(_)
MathMin(seq) ==
  IF Len(seq) = 1 THEN Head(seq)
  ELSE LET m == MathMin(Tail(seq)) IN IF Head(seq) < m THEN Head(seq) ELSE m

RECURSIVE MathMax(_)
MathMax(seq) ==
  IF Len(seq) = 1 THEN Head(seq)
  ELSE LET m == MathMax(Tail(seq)) IN IF Head(seq) > m THEN Head(seq) ELSE m

\* Math.round(n / d) and, with the values scaled, (n / d).toFixed(k), for
\* n >= 0 and d > 0: the nearest integer, halves upwards
RoundDiv(n, d) == (2 * n + d) \div (2 * d)

\* an aggregate as it is reported: the sum and the divisor the mean was
\* computed from, the mean, and the extremes the analyser prints
Agg(shown, sum, divisor, min, max) ==
  [shown |-> shown, sum |-> sum, divisor |-> divisor,
   avg |-> IF divisor = 0 THEN 0 ELSE RoundDiv(sum, divisor),
   min |-> min, max |-> max]

NoAgg == Agg(FALSE, 0, 0, 0, 0)

\* v || 0
OrZero(v) == IF v = Undef \/ v = 0 THEN 0 ELSE v

\* analytics-server.js lines 175-181: sum of (property || 0) over all the
\* calculations, divided by their number; 0 when there is none
DashboardAgg(calcs, field) ==
  IF Len(calcs) = 0 THEN Agg(TRUE, 0, 0, 0, 0)
  ELSE LET vals == ValuesOf(calcs, field) IN
       Agg(TRUE, Sum([i \in 1..Len(vals) |-> OrZero(vals[i])]), Len(calcs),
           0, 0)

\* .filter(Boolean) on property values: undefined and 0 are falsy
FilterBoolean(vals) == SelectSeq(vals, LAMBDA v : v # Undef /\ v # 0)

\* analyze-data.js lines 80-98 and 107-117: the section is printed when the
\* filtered list is not empty
AnalyzeAgg(calcs, field) ==
  LET vals == FilterBoolean(ValuesOf(calcs, field)) IN
  IF Len(vals) = 0 THEN NoAgg
  ELSE Agg(TRUE, Sum(vals), Len(vals), MathMin(vals), MathMax(vals))

CalcReport(total, price, rate) ==
  [total |-> total, price |-> price, rate |-> rate]

NoCalcReport == CalcReport(0, NoAgg, NoAgg)

\* ((n / d) * 100).toFixed(1) as it is printed: a percentage in tenths, or
\* the text "Infinity" (n / 0 with n > 0) or "NaN" (0 / 0)
Ratio(n, d) ==
  [kind |-> IF d # 0 THEN "finite" ELSE IF n = 0 THEN "NaN" ELSE "Infinity",
   tenths |-> IF d # 0 THEN RoundDiv(1000 * n, d) ELSE 0]

\* a rate the report does not print
NoRatio == [kind |-> "skipped", tenths |-> 0]

\* eventsByType[name] || 0
TypeCount(events, name) == CountName(events, name)

\* analyze-data.js lines 154-166: the share rate is printed inside the
\* `appOpened > 0` branch when shareClicks > 0
Funnel(events) ==
  LET appOpened == TypeCount(events, "app_opened")
      calculationsPerformed == TypeCount(events, "calculation_performed")
      shareClicks == TypeCount(events, "share_clicked")
  IN [calculationRate |-> IF appOpened > 0
                          THEN Ratio(calculationsPerformed, appOpened)
                          ELSE NoRatio,
      shareRate |-> IF appOpened > 0 /\ shareClicks > 0
                    THEN Ratio(shareClicks, calculationsPerformed)
                    ELSE NoRatio]

NoFunnel == [calculationRate |-> NoRatio, shareRate |-> NoRatio]

\* property names that are canonical array indices, and their values
IsIndexKey(k) == k \in {"7", "42"}

IndexOf(k) == IF k = "7" THEN 7 ELSE 42

\* arr.sort(cmp) is stable: an element goes after the ones it does not
\* precede; rank[x] is the sort key, smaller first
RECURSIVE InsertByRank(_, _, _)
InsertByRank(sorted, x, rank) ==
  IF sorted = <<>> THEN <<x>>
  ELSE IF rank[x] < rank[Head(sorted)] THEN <<x>> \o sorted
  ELSE <<Head(sorted)>> \o InsertByRank(Tail(sorted), x, rank)

RECURSIVE StableSort(_, _)
StableSort(seq, rank) ==
  IF seq = <<>> THEN <<>>
  ELSE InsertByRank(StableSort(SubSeq(seq, 1, Len(seq) - 1), rank),
                    seq[Len(seq)], rank)

EntriesOf(seq) == {seq[i] : i \in 1..Len(seq)}

\* lines 197-202: userActivity[event.user_id] = (... || 0) + 1, kept as the
\* list of [key, count] in the order the properties were created
RECURSIVE Tally(_, _)
Tally(events, acc) ==
  IF events = <<>> THEN acc
  ELSE LET id == Head(events).user_id
           k == PropertyKey(id)
       IN IF ~ Truthy(id) THEN Tally(Tail(events), acc)
          ELSE IF \E i \in 1..Len(acc) : acc[i].key = k
          THEN Tally(Tail(events),
                     [i \in 1..Len(acc) |->
                        IF acc[i].key = k
                        THEN [acc[i] EXCEPT !.count = @ + 1] ELSE acc[i]])
          ELSE Tally(Tail(events), Append(acc, [key |-> k, count |-> 1]))

\* Object.entries(obj): the index keys in ascending numeric order, then the
\* other keys in the order of their creation
ObjectEntries(acc) ==
  LET idx == SelectSeq(acc, LAMBDA e : IsIndexKey(e.key))
      str == SelectSeq(acc, LAMBDA e : ~ IsIndexKey(e.key))
  IN StableSort(idx, [e \in EntriesOf(idx) |-> IndexOf(e.key)]) \o str

\* .sort((a, b) => b[1] - a[1])
SortByCountDesc(entries) ==
  StableSort(entries, [e \in EntriesOf(entries) |-> 0 - e.count])

\* .slice(0, 5)
FirstFive(seq) == SubSeq(seq, 1, IF Len(seq) < 5 THEN Len(seq) ELSE 5)

\* lines 192-211: the list that is printed
TopUsers(events) == FirstFive(SortByCountDesc(ObjectEntries(Tally(events, <<>>))))

Reply(op, arg, status, sessions, count, total, users) ==
  [op |-> op, arg |-> arg, status |-> status, sessions |-> sessions,
   count |-> count, total_events |-> total, unique_users |-> users,
   calculations |-> NoCalcReport, funnel |-> NoFunnel, top |-> <<>>]

NoReply == Reply("none", "", "none", <<>>, 0, 0, 0)

Failed(op, arg) == Reply(op, arg, "error", <<>>, 0, 0, 0)

\* lines 113-131, GET /api/events/recent: only the lines of the slice are
\* parsed; status "ok" is HTTP 200, "error" is HTTP 500
RecentReply(file, arg) ==
  IF ~ file.exists THEN Failed("recent", arg)
  ELSE LET tail == Slice(Lines(file.data), - LimitOf(arg)) IN
       IF ~ AllDecodable(tail) THEN Failed("recent", arg)
       ELSE Reply("recent", arg, "ok", ParseAll(tail), Len(tail), 0, 0)

\* lines 134-156, GET /api/user/:userId
UserReply(file, arg) ==
  IF ~ file.exists \/ ~ AllDecodable(Lines(file.data))
  THEN Failed("user", arg)
  ELSE LET mine == FilterUser(ParseAll(Lines(file.data)), arg)
       IN Reply("user", arg, "ok", mine, Len(mine), SumLen(mine), 0)

\* lines 159-202, GET /api/dashboard
DashboardReply(file) ==
  IF ~ file.exists \/ ~ AllDecodable(Lines(file.data))
  THEN Failed("dashboard", "")
  ELSE LET all == ParseAll(Lines(file.data))
           calcs == Calculations(FlatEvents(all))
       IN IF PropsThrow(calcs) THEN Failed("dashboard", "")
          ELSE [Reply("dashboard", "", "ok", <<>>, Len(all), SumLen(all),
                      Cardinality(UserSet(all)))
                EXCEPT !.calculations =
                  CalcReport(Len(calcs), DashboardAgg(calcs, "price"),
                             DashboardAgg(calcs, "rate"))]

\* analyzeData of analyze-data.js, lines 17-250: "nodata" is the early
\* return of line 27, "error" a message printed by the catch of line 239
AnalyzeReply(file) ==
  IF ~ file.exists THEN Failed("analyze", "")
  ELSE IF Lines(file.data) = <<>>
       THEN Reply("analyze", "", "nodata", <<>>, 0, 0, 0)
  ELSE IF ~ AllDecodable(Lines(file.data)) THEN Failed("analyze", "")
  ELSE LET all == ParseAll(Lines(file.data))
           calcs == Calculations(FlatEvents(all))
       IN IF PropsThrow(calcs) THEN Failed("analyze", "")
          ELSE [Reply("analyze", "", "ok", <<>>, Len(all), SumLen(all),
                      Cardinality(UserSet(all)))
                EXCEPT !.calculations =
                  IF Len(calcs) = 0 THEN NoCalcReport
                  ELSE CalcReport(Len(calcs), AnalyzeAgg(calcs, "price"),
                                  AnalyzeAgg(calcs, "rate")),
                       !.funnel = Funnel(FlatEvents(all)),
                       !.top = TopUsers(FlatEvents(all))]

\* ---------------------------------------------------------------- state
VARIABLES
  up,          \* the server has run init() and is listening
  eventsFile,  \* [exists, data]: events.jsonl as the pieces written to it
  statsFile,   \* stats.json
  pc,          \* position of each ingestion request in its handler
  body,        \* req.body of each ingestion request
  written,     \* pieces of its line a request has appended
  stats,       \* the local `stats` object of a request in updateStats
  errlog,      \* what a request made the server log with console.error
  resp,        \* the response sent: [status, events_received]
  crashes,     \* crashes so far
  reply        \* the answer of the query made in the last step, if any

vars == <<up, eventsFile, statsFile, pc, body, written, stats, errlog, resp,
          crashes, reply>>

NoResp == [status |-> 0, events_received |-> 0]

Init ==
  /\ up = FALSE
  /\ eventsFile = [exists |-> FALSE, data |-> <<>>]
  /\ statsFile = NoStatsFile
  /\ pc = [p \in Reqs |-> "idle"]
  /\ body = [p \in Reqs |-> NoBody]
  /\ written = [p \in Reqs |-> 0]
  /\ stats = [p \in Reqs |-> NoStatsFile]
  /\ errlog = [p \in Reqs |-> ""]
  /\ resp = [p \in Reqs |-> NoResp]
  /\ crashes = 0
  /\ reply = NoReply

Session(p) == Enrich(p, body[p])

\* ------------------------------------------------------------- startup
\* lines 22-49 and 242-248: init() creates the files that do not exist and
\* leaves existing ones alone, then the server listens
\* an init() that writes the empty log without looking for the file
WriteEmptyLog(file) == [exists |-> TRUE, data |-> <<>>]

\* lines 27-31: fs.access(EVENTS_FILE), and writeFile(EVENTS_FILE, '') when
\* it throws
EnsureEventsFile(file) ==
  IF file.exists THEN file ELSE [exists |-> TRUE, data |-> <<>>]

init ==
  /\ ~ up
  /\ up' = TRUE
  /\ eventsFile' = EnsureEventsFile(eventsFile)
  /\ statsFile' = IF statsFile.state # "missing" THEN statsFile
                  ELSE InitialStats
  /\ UNCHANGED <<pc, body, written, stats, errlog, resp, crashes>>
  /\ reply' = NoReply

\* the process dies: the files stay as they are, requests in flight get no
\* answer
Crash ==
  /\ up
  /\ crashes < MaxCrashes
  /\ up' = FALSE
  /\ crashes' = crashes + 1
  /\ pc' = [p \in Reqs |->
              IF pc[p] \in {"idle", "done"} THEN pc[p] ELSE "aborted"]
  /\ stats' = [p \in Reqs |-> NoStatsFile]
  /\ UNCHANGED <<eventsFile, statsFile, body, written, errlog, resp>>
  /\ reply' = NoReply

\* ------------------------------------------- POST /api/analytics, 52-92
\* lines 54-70: destructure, validate, enrich; up to the first await.
\* Requests are numbered in the order they arrive.
Receive(p, b) ==
  /\ up
  /\ pc[p] = "idle"
  /\ \A q \in Reqs : q < p => pc[q] # "idle"
  /\ body' = [body EXCEPT ![p] = b]
  /\ IF IsValidEvents(b)
     THEN /\ pc' = [pc EXCEPT ![p] = "append"]
          /\ UNCHANGED resp
     ELSE /\ pc' = [pc EXCEPT ![p] = "done"]
          /\ resp' = [resp EXCEPT ![p] = [status |-> 400, events_received |-> 0]]
  /\ UNCHANGED <<up, eventsFile, statsFile, written, stats, errlog, crashes>>
  /\ reply' = NoReply

\* lines 73-76: one piece of the line reaches the file; after the last one
\* updateStats is called and waits for its readFile
AppendChunk(p) ==
  /\ up
  /\ pc[p] = "append"
  /\ LET s == Session(p)
         k == written[p] + 1
     IN /\ eventsFile' = [exists |-> TRUE,
                          data |-> Append(eventsFile.data, ChunkOf(s, k))]
        /\ written' = [written EXCEPT ![p] = k]
        /\ pc' = [pc EXCEPT ![p] = IF k = NumChunks(s) THEN "readStats"
                                   ELSE "append"]
  /\ UNCHANGED <<up, statsFile, body, stats, errlog, resp, crashes>>
  /\ reply' = NoReply

\* lines 73-76 and 88-91: appendFile rejects (the open or a write fails,
\* possibly after an earlier piece was written); the handler's catch answers
AppendFail(p) ==
  /\ up
  /\ pc[p] = "append"
  /\ pc' = [pc EXCEPT ![p] = HandlerCatch.next]
  /\ errlog' = [errlog EXCEPT ![p] = "append"]
  /\ resp' = [resp EXCEPT ![p] =
                [status |-> HandlerCatch.status, events_received |-> 0]]
  /\ UNCHANGED <<up, eventsFile, statsFile, body, written, stats, crashes>>
  /\ reply' = NoReply

\* the end of updateStats with exception err ("" for none) and lines 81-86
Finish(p, err) ==
  /\ pc' = [pc EXCEPT ![p] = "done"]
  /\ errlog' = [errlog EXCEPT ![p] = err]
  /\ stats' = [stats EXCEPT ![p] = NoStatsFile]
  /\ resp' = [resp EXCEPT ![p] =
                [status |-> StatusAfterUpdateStats(err),
                 events_received |->
                   IF StatusAfterUpdateStats(err) = 200
                   THEN Len(body[p].events) ELSE 0]]

\* lines 207-228: readFile resolves, the content is parsed and updated
ReadStats(p) ==
  /\ up
  /\ pc[p] = "readStats"
  /\ LET r == updateStatsBody(statsFile, Session(p)) IN
     IF r.err = ""
     THEN /\ stats' = [stats EXCEPT ![p] = r.stats]
          /\ pc' = [pc EXCEPT ![p] = "writeOpen"]
          /\ UNCHANGED <<errlog, resp>>
     ELSE Finish(p, r.err)
  /\ UNCHANGED <<up, eventsFile, statsFile, body, written, crashes>>
  /\ reply' = NoReply

\* line 230: writeFile opens stats.json with flag 'w'
WriteOpen(p) ==
  /\ up
  /\ pc[p] = "writeOpen"
  /\ statsFile' = TruncatedStats
  /\ pc' = [pc EXCEPT ![p] = "writeData"]
  /\ UNCHANGED <<up, eventsFile, body, written, stats, errlog, resp, crashes>>
  /\ reply' = NoReply

\* line 230: the serialized object is written; updateStats returns
WriteData(p) ==
  /\ up
  /\ pc[p] = "writeData"
  /\ statsFile' = WrittenOver(statsFile, stats[p])
  /\ Finish(p, "")
  /\ UNCHANGED <<up, eventsFile, body, written, crashes>>
  /\ reply' = NoReply

\* lines 207, 230, 231-233: readFile or writeFile rejects with an I/O error
StatsIOFail(p) ==
  /\ up
  /\ pc[p] \in {"readStats", "writeOpen", "writeData"}
  /\ Finish(p, "EIO")
  /\ UNCHANGED <<up, eventsFile, statsFile, body, written, crashes>>
  /\ reply' = NoReply

Ingest(p) ==
  \/ \E b \in Bodies : Receive(p, b)
  \/ AppendChunk(p)
  \/ AppendFail(p)
  \/ ReadStats(p)
  \/ WriteOpen(p)
  \/ WriteData(p)
  \/ StatsIOFail(p)

Next ==
  \/ init
  \/ Crash
  \/ \E p \in Reqs : Ingest(p)

Spec == Init /\ [][Next]_vars

\* ------------------------------- a data directory with a stats file
\* stats.json as an operator's reset of the tracker leaves it: counters 0 and
\* unique_users an empty list, or no unique_users field at all
ResetStats ==
  { StatsJSON(0, 0, 0, 0, [kind |-> "array", items |-> <<>>]),
    StatsJSON(0, 0, 0, 0, [kind |-> "absent", items |-> <<>>]) }

\* the server is started on a new directory or on one holding an empty log
\* and a reset stats file
InitU ==
  /\ up = FALSE
  /\ \/ /\ eventsFile = [exists |-> FALSE, data |-> <<>>]
        /\ statsFile = NoStatsFile
     \/ /\ eventsFile = [exists |-> TRUE, data |-> <<>>]
        /\ statsFile \in ResetStats
  /\ pc = [p \in Reqs |-> "idle"]
  /\ body = [p \in Reqs |-> NoBody]
  /\ written = [p \in Reqs |-> 0]
  /\ stats = [p \in Reqs |-> NoStatsFile]
  /\ errlog = [p \in Reqs |-> ""]
  /\ resp = [p \in Reqs |-> NoResp]
  /\ crashes = 0
  /\ reply = NoReply

IngestU(p) ==
  \/ \E b \in UBodies : Receive(p, b)
  \/ AppendChunk(p)
  \/ AppendFail(p)
  \/ ReadStats(p)
  \/ WriteOpen(p)
  \/ WriteData(p)
  \/ StatsIOFail(p)

NextU ==
  \/ init
  \/ Crash
  \/ \E p \in Reqs : IngestU(p)

SpecU == InitU /\ [][NextU]_vars

\* ------------------------------------------------------ read requests
\* A query changes no file and no handler's state, so a second query made
\* right after one reaches nothing new: queries are made from the states a
\* write step left.
Unread == <<up, eventsFile, statsFile, pc, body, written, stats, errlog,
            resp, crashes>>

\* GET /api/events/recent?limit=arg
Recent(arg) ==
  /\ up
  /\ reply = NoReply
  /\ reply' = RecentReply(eventsFile, arg)
  /\ UNCHANGED Unread

\* GET /api/user/arg
User(arg) ==
  /\ up
  /\ reply = NoReply
  /\ reply' = UserReply(eventsFile, arg)
  /\ UNCHANGED Unread

\* GET /api/dashboard
Dashboard ==
  /\ up
  /\ reply = NoReply
  /\ reply' = DashboardReply(eventsFile)
  /\ UNCHANGED Unread

\* node analyze-data.js, run by the operator whether the server is up or not
Analyze ==
  /\ reply = NoReply
  /\ reply' = AnalyzeReply(eventsFile)
  /\ UNCHANGED Unread

IngestQ(p) ==
  \/ \E b \in QBodies : Receive(p, b)
  \/ AppendChunk(p)
  \/ AppendFail(p)
  \/ ReadStats(p)
  \/ WriteOpen(p)
  \/ WriteData(p)
  \/ StatsIOFail(p)

NextQ ==
  \/ init
  \/ \E p \in Reqs : IngestQ(p)
  \/ \E arg \in QLimits : Recent(arg)
  \/ \E arg \in QUserIds : User(arg)
  \/ Dashboard
  \/ Analyze

SpecQ == Init /\ [][NextQ]_vars

\* ------------------- behaviours with restarts, ingestions and reads
\* an accepted batch whose line is written in two pieces, and a rejected one
LBodies ==
  { Body("array", <<Event("app_opened"), Event("calculation_performed")>>,
         Absent, "large"),
    Body("string", <<>>, "u1", "small") }

LLimits == {"1"}
LUserIds == {"u1"}

IngestL(p) ==
  \/ \E b \in LBodies : Receive(p, b)
  \/ AppendChunk(p)
  \/ AppendFail(p)
  \/ ReadStats(p)
  \/ WriteOpen(p)
  \/ WriteData(p)
  \/ StatsIOFail(p)

NextL ==
  \/ init
  \/ Crash
  \/ \E p \in Reqs : IngestL(p)
  \/ \E arg \in LLimits : Recent(arg)
  \/ \E arg \in LUserIds : User(arg)
  \/ Dashboard
  \/ Analyze

SpecL == Init /\ [][NextL]_vars

\* ------------------------------ behaviours with events of every shape
\* batches whose events are named, have an empty name, have no name, and
\* batches without an array of events
VBodies ==
  { Body("array", <<Event("app_opened")>>, "u1", "small"),
    Body("array", <<Event("app_opened"), Event("")>>, "u1", "small"),
    Body("array", <<Event(Absent)>>, Absent, "large"),
    Body("missing", <<>>, Absent, "small") }

IngestV(p) ==
  \/ \E b \in VBodies : Receive(p, b)
  \/ AppendChunk(p)
  \/ AppendFail(p)
  \/ ReadStats(p)
  \/ WriteOpen(p)
  \/ WriteData(p)
  \/ StatsIOFail(p)

NextV ==
  \/ init
  \/ Crash
  \/ \E p \in Reqs : IngestV(p)

SpecV == Init /\ [][NextV]_vars

\* ------------------------------------ behaviours that run the aggregations
IngestA(p) ==
  \/ \E b \in ABodies : Receive(p, b)
  \/ AppendChunk(p)
  \/ AppendFail(p)
  \/ ReadStats(p)
  \/ WriteOpen(p)
  \/ WriteData(p)
  \/ StatsIOFail(p)

NextA ==
  \/ init
  \/ \E p \in Reqs : IngestA(p)
  \/ Dashboard
  \/ Analyze

SpecA == Init /\ [][NextA]_vars

\* ============================================================== claims
LogRecords == Records(eventsFile)

HasRecord(file, p) ==
  \E i \in 1..Len(Records(file)) : Records(file)[i].session_id = p

PiecesOf(file, p) ==
  Cardinality({i \in 1..Len(file.data) : file.data[i].session.session_id = p})

Quiescent == \A p \in Reqs : pc[p] \in {"idle", "done"}

Accepted == {p \in Reqs : pc[p] = "done" /\ resp[p].status = 200}

\* C1: in every reachable state the sum of events.length over the records of
\* events.jsonl equals total_events of stats.json.
C1_LogSumEqualsTotalEvents ==
  statsFile.state = "json" => SumLen(LogRecords) = statsFile.total_events

\* C2: a POST whose events field is missing or is not an array is answered
\* 400, and neither the event log nor the stats file is changed by it: the
\* step that receives it leaves both files as they were, the request is over
\* with it and no piece of the log belongs to it.
C2_InvalidRejected ==
  [][\A p \in Reqs :
       (body'[p].events_kind # "array" /\ pc'[p] # "idle") =>
         /\ pc'[p] = "done"
         /\ resp'[p].status = 400
         /\ PiecesOf(eventsFile', p) = 0
         /\ (pc[p] = "idle" => eventsFile' = eventsFile /\ statsFile' = statsFile)
    ]_vars

C2_Witness ==
  \E p \in Reqs :
    /\ body[p].events_kind = "string"
    /\ pc[p] = "done"
    /\ resp[p].status = 400
    /\ eventsFile.exists

\* C3: updateStats applied to the stats file init() created computes, for a
\* batch with or without user_id, total_sessions + 1, total_events + the
\* number of events, the two per-name counters + the number of events of that
\* name, and unique_users containing the batch's user_id when it has one.
C3_UpdateFromInit ==
  [][\A p \in Reqs :
       (/\ pc[p] = "readStats" /\ pc'[p] # "readStats" /\ up'
        /\ statsFile = InitialStats /\ errlog'[p] # "EIO") =>
         /\ pc'[p] = "writeOpen"
         /\ stats'[p].total_sessions = 1
         /\ stats'[p].total_events = Len(body[p].events)
         /\ stats'[p].total_calculations
              = CountName(body[p].events, "calculation_performed")
         /\ stats'[p].total_shares = CountName(body[p].events, "share_clicked")
         /\ (Truthy(body[p].user_id) =>
               Includes(stats'[p].unique_users.items, body[p].user_id))
    ]_vars

\* C4: the stats never run ahead of the log: total_sessions is at most the
\* number of log records and total_events at most the sum of their event
\* counts, in every reachable state.
C4_StatsAtMostLog ==
  statsFile.state = "json" =>
    /\ statsFile.total_sessions <= Len(LogRecords)
    /\ statsFile.total_events <= SumLen(LogRecords)

\* C5: when the append of a batch fails the request is answered 500, the log
\* holds no record of that batch, and the stats file is not changed by that
\* batch: the failing step leaves it alone and the request is over.
C5_AppendFailure ==
  [][\A p \in Reqs :
       errlog'[p] = "append" =>
         /\ pc'[p] = "done"
         /\ resp'[p].status = 500
         /\ ~ HasRecord(eventsFile', p)
         /\ (errlog[p] # "append" => statsFile' = statsFile)
    ]_vars

C5_Witness ==
  \E p \in Reqs :
    /\ errlog[p] = "append"
    /\ pc[p] = "done"
    /\ resp[p].status = 500
    /\ written[p] = 1

\* C6: when reading, parsing or writing the stats file fails after the
\* batch's line was appended, the request is answered success with
\* events_received = the batch's event count, and every piece of the line is
\* in the log exactly once (no rollback, no second append).
C6_StatsFailureIsSuccess ==
  \A p \in Reqs :
    (pc[p] = "done" /\ errlog[p] \in {"EIO", "ENOENT", "SyntaxError", "TypeError"}) =>
      /\ resp[p] = [status |-> 200, events_received |-> Len(body[p].events)]
      /\ PiecesOf(eventsFile, p) = NumChunks(Session(p))

C6_Witness ==
  \E p \in Reqs :
    /\ pc[p] = "done"
    /\ errlog[p] = "SyntaxError"
    /\ resp[p].status = 200
    /\ Len(body[p].events) > 0

\* C7: concurrent valid ingestions (no crash, no failed append) leave one
\* well-formed record per accepted request, and no reader ever finds a line
\* of the log that is not a complete record.
C7_AtomicAppends ==
  (crashes = 0 /\ \A p \in Reqs : errlog[p] # "append") =>
    /\ AllDecodable(Lines(eventsFile.data))
    /\ (Quiescent => Len(LogRecords) = Cardinality(Accepted))

\* C8: updateStats calls do not interleave: once k accepted batches have
\* completed with no failure in updateStats, total_sessions is k.
C8_StatsSerialized ==
  (/\ crashes = 0 /\ Quiescent /\ \A p \in Reqs : errlog[p] = ""
   /\ statsFile.state = "json") =>
    statsFile.total_sessions = Cardinality(Accepted)

LastN(seq, n) ==
  SubSeq(seq, Len(seq) - (IF n > Len(seq) THEN Len(seq) ELSE n) + 1, Len(seq))

\* C9: GET /api/events/recent with limit n >= 0 answers the final n records
\* of the log in append order, none for n = 0 and the whole log when n
\* exceeds its length (stated on logs all of whose lines are records).
C9_RecentLastN ==
  (/\ reply.op = "recent" /\ ~ ParseInt(reply.arg).nan
   /\ AllDecodable(Lines(eventsFile.data))) =>
     /\ reply.status = "ok"
     /\ reply.sessions = LastN(LogRecords, ParseInt(reply.arg).n)

\* C10: a stored line of the log that does not decode is skipped by every
\* reading operation: none of them fails on it, and the answer is computed
\* from the records that do decode (stated while no append is in progress).
C10_SkipMalformed ==
  (/\ reply.op \in {"recent", "user", "dashboard", "analyze"}
   /\ eventsFile.exists /\ Quiescent) =>
     /\ reply.status # "error"
     /\ (reply.op = "user" =>
           reply.sessions = FilterUser(LogRecords, reply.arg))
     /\ (reply.op = "dashboard" =>
           /\ reply.count = Len(LogRecords)
           /\ reply.total_events = SumLen(LogRecords))

RECURSIVE NoDup(_)
NoDup(seq) ==
  IF seq = <<>> THEN TRUE
  ELSE ~ Includes(Tail(seq), Head(seq)) /\ NoDup(Tail(seq))

\* C11: the unique_users persisted in stats.json never lists a user_id
\* twice, whatever the number and the interleaving of the updates, each of
\* which works on the file as read back from disk.
C11_NoDuplicateUsers ==
  statsFile.state = "json" => NoDup(statsFile.unique_users.items)

C11_Witness ==
  \E p, q \in Reqs :
    /\ p # q
    /\ pc[p] = "done" /\ pc[q] = "done"
    /\ errlog[p] = "" /\ errlog[q] = ""
    /\ body[p].user_id = "u1" /\ body[q].user_id = "u1"
    /\ resp[p].status = 200 /\ resp[q].status = 200
    /\ statsFile.state = "json"
    /\ statsFile.total_sessions = 2
    /\ statsFile.unique_users.items = <<"u1">>

\* the tracker rebuilt from the log: reset to what init() writes, then
\* updateStats once per record in file order (an update that throws leaves
\* the tracker as it was, as the catch of line 231 does)
RECURSIVE ReplayFrom(_, _)
ReplayFrom(tracker, sessions) ==
  IF sessions = <<>> THEN tracker
  ELSE LET r == updateStatsBody(tracker, Head(sessions)) IN
       ReplayFrom(IF r.err = "" THEN r.stats ELSE tracker, Tail(sessions))

\* C12: once the ingestions have completed (no crash, no I/O error), the
\* totals in stats.json are those of a tracker reset to zero and updated
\* once per log record in append order.
C12_ReplayEquivalence ==
  (/\ Quiescent /\ crashes = 0 /\ up
   /\ \A p \in Reqs : errlog[p] \notin {"EIO", "append"}) =>
     statsFile = ReplayFrom(InitialStats, LogRecords)

\* the values of a property that are present, 0 included
PresentValues(calcs, field) ==
  SelectSeq(ValuesOf(calcs, field), LAMBDA v : v # Undef)

\* C13: the mean (and, in the analyser, the minimum and maximum) of price
\* and of rate that a successful dashboard or analyser run reports is taken
\* over the calculation_performed events in which the property is present:
\* a missing value adds nothing to the sum or to the divisor, a value of 0
\* is counted.
C13_MeansOverPresentValues ==
  (reply.status = "ok" /\ reply.op \in {"dashboard", "analyze"}) =>
    LET calcs == Calculations(FlatEvents(LogRecords)) IN
    \A field \in {"price", "rate"} :
      LET present == PresentValues(calcs, field)
          agg == IF field = "price" THEN reply.calculations.price
                 ELSE reply.calculations.rate
      IN Len(present) > 0 =>
           /\ agg.shown
           /\ agg.sum = Sum(present)
           /\ agg.divisor = Len(present)
           /\ agg.avg = RoundDiv(Sum(present), Len(present))
           /\ reply.op = "analyze" =>
                 /\ agg.min = MathMin(present)
                 /\ agg.max = MathMax(present)

\* C14: the conversion rate and the share rate of an analyser report are
\* each either skipped or a finite percentage, whatever the log holds; a
\* rate whose denominator count is 0 is skipped.
C14_RatesFiniteOrSkipped ==
  (reply.op = "analyze" /\ reply.status = "ok") =>
    LET events == FlatEvents(LogRecords) IN
    /\ reply.funnel.calculationRate.kind \in {"skipped", "finite"}
    /\ reply.funnel.shareRate.kind \in {"skipped", "finite"}
    /\ TypeCount(events, "app_opened") = 0 =>
          reply.funnel.calculationRate.kind = "skipped"
    /\ TypeCount(events, "calculation_performed") = 0 =>
          reply.funnel.shareRate.kind = "skipped"

\* the users of the log with their event counts, in the order in which
\* they are first met
RECURSIVE CountsInEncounterOrder(_, _)
CountsInEncounterOrder(events, seen) ==
  IF events = <<>> THEN <<>>
  ELSE LET id == Head(events).user_id IN
       IF ~ Truthy(id) \/ id \in seen
       THEN CountsInEncounterOrder(Tail(events), seen)
       ELSE <<[key |-> PropertyKey(id),
               count |-> Len(SelectSeq(events, LAMBDA e : e.user_id = id))]>>
            \o CountsInEncounterOrder(Tail(events), seen \cup {id})

\* C19: the top-5 list of an analyser report holds the users by decreasing
\* event count, users with equal counts in the order of their first
\* appearance in the log.
C19_TopFiveStable ==
  (reply.op = "analyze" /\ reply.status = "ok") =>
    reply.top = FirstFive(SortByCountDesc(
                  CountsInEncounterOrder(FlatEvents(LogRecords), {})))

\* the records of a user: those whose user_id, written as a string, is the
\* queried identifier
RecordsOfUser(sessions, q) ==
  SelectSeq(sessions, LAMBDA r : r.user_id # Absent /\ PropertyKey(r.user_id) = q)

\* C15: GET /api/user/:userId answers with the log records of that user (a
\* stored number 42 is the user "42"), in append order, with their number
\* and the sum of their event counts; zeros and an empty list when there is
\* none.
C15_UserRollup ==
  (reply.op = "user" /\ Quiescent) =>
    LET mine == RecordsOfUser(LogRecords, reply.arg) IN
    /\ reply.status = "ok"
    /\ reply.sessions = mine
    /\ reply.count = Len(mine)
    /\ reply.total_events = SumLen(mine)

IsPrefix(s, t) == Len(s) <= Len(t) /\ SubSeq(t, 1, Len(s)) = s

\* C16: the log only grows.  No step (startup, restart, an accepted or a
\* rejected ingestion, a stats update, a read endpoint, the analyser)
\* removes the file or changes what it already holds; startup leaves an
\* existing log as it is and creates an empty one when there is none.
C16_AppendOnly ==
  [][/\ eventsFile.exists => eventsFile'.exists
     /\ IsPrefix(eventsFile.data, eventsFile'.data)
     /\ (~ up /\ up') =>
          eventsFile' = IF eventsFile.exists THEN eventsFile
                        ELSE [exists |-> TRUE, data |-> <<>>]
     /\ reply' # NoReply => eventsFile' = eventsFile
     /\ (\E p \in Reqs : pc[p] = "idle" /\ pc'[p] = "done")
          => eventsFile' = eventsFile]_vars

\* the server has been restarted on a log that held the pieces a request
\* wrote before the crash, the log still holds them, and it has been read
C16_Witness ==
  /\ up /\ crashes >= 1
  /\ \E p \in Reqs : /\ pc[p] = "aborted" /\ written[p] >= 1
                      /\ PiecesOf(eventsFile, p) = written[p]
  /\ \E p \in Reqs : pc[p] = "done" /\ resp[p].status = 400
  /\ reply.op # "none"

NamedEvents(events) ==
  \A i \in 1..Len(events) : Truthy(events[i].event_name)

\* C17: every event of every record in the log has a non-empty event_name:
\* a batch holding an event whose name is missing or empty is rejected as a
\* whole and nothing of it reaches the log.
C17_EventsNamed ==
  /\ \A i \in 1..Len(eventsFile.data) :
       NamedEvents(eventsFile.data[i].session.events)
  /\ \A p \in Reqs :
       (pc[p] # "idle" /\ IsArray(body[p].events_kind)
        /\ ~ NamedEvents(body[p].events)) =>
         (pc[p] = "done" /\ resp[p].status = 400 /\ written[p] = 0)

\* C18: a start of the server leaves a stats file that decodes: a missing
\* file and a file that is there but does not decode are both replaced by
\* the zero tracker, a file that decodes is kept; the log is not touched to
\* rebuild it.
C18_InitRecoversStats ==
  [][(~ up /\ up') =>
       /\ statsFile' = IF statsFile.state = "json" THEN statsFile
                       ELSE InitialStats
       /\ eventsFile'.data = eventsFile.data]_vars
====
